---- MODULE Spec2Model ----
(***************************************************************************)
(* Model of unintended_ml_bias/model_bias_analysis.py: the bias metric     *)
(* engine (confusion counts and rates, ROC sweep, equal-error-rate search, *)
(* Mann-Whitney U variants, pinned AUC, squared equality gap, family names *)
(* and the diff-from-overall summary).                                     *)
(*                                                                         *)
(* The functions of the file are pure: a state is the data frame `df`, the *)
(* last call made on it (`call`: the function and its arguments) and what  *)
(* that call produced (`result`: a returned value or a raised exception).  *)
(*                                                                         *)
(* Numbers.  Scores and thresholds are floats in the source; here a score  *)
(* is an integer number of 1/ScoreScale units and every other number is an *)
(* exact fraction in lowest terms, [kind |-> "num", n |-> _, d |-> _].     *)
(* None and NaN are values of the same shape with kind "None" and "nan".   *)
(***************************************************************************)
EXTENDS Integers, Sequences, FiniteSets, TLC

VARIABLES df, call, result

vars == <<df, call, result>>

(***************************************************************************)
(* Bounds of the model.                                                    *)
(***************************************************************************)
\* scores are multiples of 1/ScoreScale
ScoreScale == 2
\* rows of a data frame with a score and a label column (rate operations)
MaxRows == 3
\* rows of a data frame that also has a subgroup column
MaxSubgroupRows == 4
\* largest num_thresholds / length of a threshold sweep
MaxNumThresholds == 5
\* thresholds of the ROC sweep of the equality gap (1000 in the source)
RocThresholds == 5
\* characters of a model name and model names of a family
MaxNameLen == 2
MaxFamilySize == 2
\* model instances over the families of one summary, and metric values in
\* one per-subgroup table (subgroup rows times instances)
MaxInstances == 2
MaxCells == 4

(***************************************************************************)
(* Numbers: exact fractions, None and NaN.                                 *)
(***************************************************************************)
Abs(x) == IF x < 0 THEN -x ELSE x

RECURSIVE Gcd(_, _)
Gcd(a, b) == IF b = 0 THEN a ELSE Gcd(b, a % b)

\* the fraction n/d (d # 0) in lowest terms with a positive denominator
Num(n, d) ==
  LET s == IF d < 0 THEN -1 ELSE 1
      g == Gcd(Abs(n), Abs(d))
  IN  [kind |-> "num", n |-> (s * n) \div g, d |-> (s * d) \div g]

None == [kind |-> "None", n |-> 0, d |-> 1]
NaN == [kind |-> "nan", n |-> 0, d |-> 1]

IsNum(x) == x.kind = "num"
Add(x, y) == Num(x.n * y.d + y.n * x.d, x.d * y.d)
Sub(x, y) == Num(x.n * y.d - y.n * x.d, x.d * y.d)
Mul(x, y) == Num(x.n * y.n, x.d * y.d)
Leq(x, y) == x.n * y.d <= y.n * x.d
Less(x, y) == x.n * y.d < y.n * x.d
Zero == Num(0, 1)
One == Num(1, 1)
Half == Num(1, 2)

\* what a call produced
Returned(v) == [kind |-> "ok", value |-> v]
Raised(e) == [kind |-> "raise", value |-> e]

(***************************************************************************)
(* np.linspace(start, stop, num) for integer start and stop.               *)
(***************************************************************************)
Linspace(start, stop, num) ==
  IF num = 1
    THEN <<Num(start, 1)>>
    ELSE [k \in 1..num |->
            Num(start * (num - 1) + (k - 1) * (stop - start), num - 1)]

(***************************************************************************)
(* Data frames: a sequence of rows, one score column, the label column and *)
(* one subgroup column.                                                    *)
(***************************************************************************)
Row(s, l, g) == [score |-> s, label |-> l, subgroup |-> g]

ScoreOf(row) == Num(row.score, ScoreScale)

(***************************************************************************)
(* confusion_matrix_counts: df[mask] is SelectSeq(frame, Mask).            *)
(***************************************************************************)
confusion_matrix_counts_strict(frame, threshold) ==
  LET TP(r) == Less(threshold, ScoreOf(r)) /\ r.label = TRUE
      TN(r) == ~Less(threshold, ScoreOf(r)) /\ r.label = FALSE
      FP(r) == Less(threshold, ScoreOf(r)) /\ r.label = FALSE
      FN(r) == ~Less(threshold, ScoreOf(r)) /\ r.label = TRUE
  IN  [tp |-> Len(SelectSeq(frame, TP)), tn |-> Len(SelectSeq(frame, TN)),
       fp |-> Len(SelectSeq(frame, FP)), fn |-> Len(SelectSeq(frame, FN))]

confusion_matrix_counts(frame, threshold) ==
  LET TP(r) == Leq(threshold, ScoreOf(r)) /\ r.label = TRUE
      TN(r) == Less(ScoreOf(r), threshold) /\ r.label = FALSE
      FP(r) == Leq(threshold, ScoreOf(r)) /\ r.label = FALSE
      FN(r) == Less(ScoreOf(r), threshold) /\ r.label = TRUE
  IN  [tp |-> Len(SelectSeq(frame, TP)), tn |-> Len(SelectSeq(frame, TN)),
       fp |-> Len(SelectSeq(frame, FP)), fn |-> Len(SelectSeq(frame, FN))]

(***************************************************************************)
(* positive_rates: the ROC sweep.  The loop returns (None, None) from the  *)
(* first threshold whose confusion matrix has an empty actual class.       *)
(***************************************************************************)
\* the pair (None, None)
NonePair == [none |-> TRUE, fpr |-> <<>>, tpr |-> <<>>]

\* the pair (fpr, tpr) of two lists
RatePair(fpr, tpr) == [none |-> FALSE, fpr |-> fpr, tpr |-> tpr]

RECURSIVE positive_rates_loop_skip(_, _, _, _, _)
positive_rates_loop_skip(frame, thresholds, k, fpr, tpr) ==
  IF k > Len(thresholds)
    THEN RatePair(fpr, tpr)
    ELSE LET confusion == confusion_matrix_counts(frame, thresholds[k])
         IN  IF \/ confusion.tp + confusion.fn = 0
                \/ confusion.fp + confusion.tn = 0
               THEN positive_rates_loop_skip(frame, thresholds, k + 1, fpr, tpr)
               ELSE positive_rates_loop_skip(frame, thresholds, k + 1,
                      Append(fpr, Num(confusion.fp, confusion.fp + confusion.tn)),
                      Append(tpr, Num(confusion.tp, confusion.tp + confusion.fn)))

RECURSIVE positive_rates_loop(_, _, _, _, _)
positive_rates_loop(frame, thresholds, k, fpr, tpr) ==
  IF k > Len(thresholds)
    THEN RatePair(fpr, tpr)
    ELSE LET confusion == confusion_matrix_counts(frame, thresholds[k])
         IN  IF \/ confusion.tp + confusion.fn = 0
                \/ confusion.fp + confusion.tn = 0
               THEN NonePair
               ELSE positive_rates_loop(frame, thresholds, k + 1,
                      Append(fpr, Num(confusion.fp, confusion.fp + confusion.tn)),
                      Append(tpr, Num(confusion.tp, confusion.tp + confusion.fn)))

positive_rates(frame, thresholds) ==
  positive_rates_loop(frame, thresholds, 1, <<>>, <<>>)

(***************************************************************************)
(* compute_confusion_rates: the counts are Python ints, so each division   *)
(* by zero raises ZeroDivisionError (true division is imported).           *)
(***************************************************************************)
compute_confusion_rates(frame, threshold) ==
  LET confusion == confusion_matrix_counts(frame, threshold)
      actual_positives == confusion.tp + confusion.fn
      actual_negatives == confusion.tn + confusion.fp
  IN  IF actual_positives = 0
        THEN Raised("ZeroDivisionError")
        ELSE IF actual_negatives = 0
          THEN Raised("ZeroDivisionError")
          ELSE IF confusion.tp + confusion.fp = 0
            THEN Raised("ZeroDivisionError")
            ELSE LET tpr == Num(confusion.tp, actual_positives)
                     tnr == Num(confusion.tn, actual_negatives)
                 IN  Returned([tpr |-> tpr, tnr |-> tnr,
                               fpr |-> Sub(One, tnr), fnr |-> Sub(One, tpr),
                               precision |-> Num(confusion.tp,
                                                 confusion.tp + confusion.fp),
                               recall |-> tpr])

(***************************************************************************)
(* compute_equal_error_rate: the scan over linspace(0, 1, num_thresholds)  *)
(* with the early break.  min_diff starts at float('inf').                 *)
(***************************************************************************)
EerStart == [threshold |-> None, confusion_matrix |-> None, inf |-> TRUE, min_diff |-> 0]

RECURSIVE eer_loop_strict(_, _, _, _)
eer_loop_strict(frame, thresholds, k, best) ==
  IF k > Len(thresholds)
    THEN best
    ELSE LET confusion_matrix == confusion_matrix_counts(frame, thresholds[k])
             difference == Abs(confusion_matrix.fn - confusion_matrix.fp)
         IN  IF best.inf \/ difference < best.min_diff
               THEN eer_loop_strict(frame, thresholds, k + 1,
                      [threshold |-> thresholds[k],
                       confusion_matrix |-> confusion_matrix,
                       inf |-> FALSE, min_diff |-> difference])
               ELSE best

RECURSIVE eer_loop(_, _, _, _)
eer_loop(frame, thresholds, k, best) ==
  IF k > Len(thresholds)
    THEN best
    ELSE LET confusion_matrix == confusion_matrix_counts(frame, thresholds[k])
             difference == Abs(confusion_matrix.fn - confusion_matrix.fp)
         IN  IF best.inf \/ difference <= best.min_diff
               THEN eer_loop(frame, thresholds, k + 1,
                      [threshold |-> thresholds[k],
                       confusion_matrix |-> confusion_matrix,
                       inf |-> FALSE, min_diff |-> difference])
               ELSE best  \* break

compute_equal_error_rate(frame, num_thresholds) ==
  LET best == eer_loop(frame, Linspace(0, 1, num_thresholds), 1, EerStart)
  IN  [threshold |-> best.threshold, confusion_matrix |-> best.confusion_matrix]

(***************************************************************************)
(* Inputs of the rate operations.                                          *)
(***************************************************************************)
\* scores from below 0 up to 1
Scores == -1..ScoreScale

RECURSIVE SeqsUpTo(_, _)
SeqsUpTo(S, n) ==
  IF n = 0
    THEN {<<>>}
    ELSE LET shorter == SeqsUpTo(S, n - 1)
         IN  shorter \cup {Append(s, x) : s \in {t \in shorter : Len(t) = n - 1}, x \in S}

\* frames of the rate operations: the subgroup column is not read by them
RateFrames == SeqsUpTo({Row(s, l, TRUE) : s \in Scores, l \in BOOLEAN}, MaxRows)

\* thresholds on and between the scores, below 0 and above 1
Thresholds == {Num(n, 2 * ScoreScale) : n \in -1..2 * ScoreScale + 1}

Sweeps ==
  UNION {{Linspace(1, 0, num), Linspace(0, 1, num)} : num \in 0..MaxNumThresholds}

(***************************************************************************)
(* The rate operations as steps.  Every function of the file is pure and   *)
(* nothing persists between invocations, so a behaviour is one input frame *)
(* followed by one call on it.                                             *)
(***************************************************************************)
Init ==
  /\ df \in RateFrames
  /\ call = [op |-> "init"]
  /\ result = Returned(None)

ConfusionMatrixCounts ==
  /\ call.op = "init"
  /\ \E threshold \in Thresholds :
    /\ call' = [op |-> "confusion_matrix_counts", threshold |-> threshold]
    /\ result' = Returned(confusion_matrix_counts(df, threshold))
    /\ UNCHANGED df

PositiveRates ==
  /\ call.op = "init"
  /\ \E thresholds \in Sweeps :
    /\ call' = [op |-> "positive_rates", thresholds |-> thresholds]
    /\ result' = Returned(positive_rates(df, thresholds))
    /\ UNCHANGED df

ComputeConfusionRates ==
  /\ call.op = "init"
  /\ \E threshold \in Thresholds :
    /\ call' = [op |-> "compute_confusion_rates", threshold |-> threshold]
    /\ result' = compute_confusion_rates(df, threshold)
    /\ UNCHANGED df

ComputeEqualErrorRate ==
  /\ call.op = "init"
  /\ \E num_thresholds \in 0..MaxNumThresholds :
    /\ call' = [op |-> "compute_equal_error_rate", num_thresholds |-> num_thresholds]
    /\ result' = Returned(compute_equal_error_rate(df, num_thresholds))
    /\ UNCHANGED df

Next ==
  \/ ConfusionMatrixCounts
  \/ PositiveRates
  \/ ComputeConfusionRates
  \/ ComputeEqualErrorRate

Spec == Init /\ [][Next]_vars

(***************************************************************************)
(* Properties of the rate operations.                                      *)
(***************************************************************************)
RowIndices == 1..Len(df)
ActualPositives == {i \in RowIndices : df[i].label}
ActualNegatives == {i \in RowIndices : ~df[i].label}

\* C1: confusion_matrix_counts returns four non-negative counts that add up
\* to the number of rows, and a row is predicted positive (tp or fp) exactly
\* when its score >= threshold: a row whose score equals the threshold is
\* never counted as tn or fn.
C1_CountsPartitionRows ==
  call.op = "confusion_matrix_counts" =>
    LET c == result.value
        AtOrAbove == {i \in RowIndices : Leq(call.threshold, ScoreOf(df[i]))}
    IN  /\ c.tp >= 0 /\ c.tn >= 0 /\ c.fp >= 0 /\ c.fn >= 0
        /\ c.tp + c.tn + c.fp + c.fn = Len(df)
        /\ c.tp = Cardinality(AtOrAbove \cap ActualPositives)
        /\ c.fp = Cardinality(AtOrAbove \cap ActualNegatives)
        /\ c.fn = Cardinality(ActualPositives \ AtOrAbove)
        /\ c.tn = Cardinality(ActualNegatives \ AtOrAbove)

\* a positive and a negative row both score exactly the threshold
C1_Witness ==
  /\ call.op = "confusion_matrix_counts"
  /\ \E i \in ActualPositives : ScoreOf(df[i]) = call.threshold
  /\ \E i \in ActualNegatives : ScoreOf(df[i]) = call.threshold
  /\ result.value.tp + result.value.fp < Len(df)

\* |fn - fp| at each threshold of linspace(0, 1, num)
GridDiffs(num) ==
  LET grid == Linspace(0, 1, num)
  IN  [k \in 1..num |->
         LET c == confusion_matrix_counts(df, grid[k]) IN Abs(c.fn - c.fp)]

\* the latest index at which diffs is minimal over the whole grid
LatestMinimum(diffs) ==
  CHOOSE k \in 1..Len(diffs) :
    /\ \A j \in 1..Len(diffs) : diffs[k] <= diffs[j]
    /\ \A j \in k + 1..Len(diffs) : diffs[k] < diffs[j]

\* fn = fp at threshold 0.5 and the difference strictly diverges on both sides
DivergesFromHalf(diffs) ==
  /\ Len(diffs) >= 3 /\ Len(diffs) % 2 = 1
  /\ LET mid == (Len(diffs) + 1) \div 2
     IN  /\ diffs[mid] = 0
         /\ \A k \in 1..mid - 1 : diffs[k] > diffs[k + 1]
         /\ \A k \in mid + 1..Len(diffs) : diffs[k] > diffs[k - 1]

\* the scan breaks before it has seen the last threshold
StopsEarly(diffs) ==
  \E k \in 2..Len(diffs) - 1 : \E j \in 1..k - 1 : diffs[k] > diffs[j]

\* C2: compute_equal_error_rate returns the latest grid threshold at which
\* |fn - fp| is minimal over the whole grid, with the confusion record of
\* that threshold, so the early break never changes the result of a full
\* scan; and it returns 0.5 when fn = fp at 0.5 and the difference strictly
\* diverges on both sides.
C2_EarlyStopIsFullScan ==
  (call.op = "compute_equal_error_rate" /\ call.num_thresholds >= 1) =>
    LET diffs == GridDiffs(call.num_thresholds)
        best == Linspace(0, 1, call.num_thresholds)[LatestMinimum(diffs)]
    IN  /\ result.value.threshold = best
        /\ result.value.confusion_matrix = confusion_matrix_counts(df, best)
        /\ DivergesFromHalf(diffs) => result.value.threshold = Half

\* the scan broke early, after the difference fell from above 0 to fn = fp
\* at threshold 0.5
C2_Witness ==
  /\ call.op = "compute_equal_error_rate"
  /\ call.num_thresholds >= 5
  /\ LET diffs == GridDiffs(call.num_thresholds)
     IN  StopsEarly(diffs) /\ diffs[1] > 0
  /\ result.value.threshold = Half
  /\ result.value.confusion_matrix.fn = result.value.confusion_matrix.fp

\* how a rate computation ended: it raised, it signalled an undefined value
\* or it produced rates
RatesOutcome(r) == IF r.kind = "raise" THEN "raise" ELSE "defined"
CurveOutcome(pair) == IF pair.none THEN "undefined" ELSE "defined"

\* C9: on a slice with zero actual positives or zero actual negatives,
\* compute_confusion_rates and positive_rates end the same way at the same
\* threshold: both signal an undefined value or both fail.
C9_SameOutcomeOnEmptyClass ==
  (/\ call.op = "compute_confusion_rates"
   /\ (ActualPositives = {} \/ ActualNegatives = {})) =>
    RatesOutcome(result) = CurveOutcome(positive_rates(df, <<call.threshold>>))

\* C10: positive_rates never returns a partial curve: (None, None) when some
\* threshold of the sweep sees an empty actual class, otherwise one FPR and
\* one TPR entry per threshold, in threshold order, fp/(fp+tn) and
\* tp/(tp+fn) of the counts at that threshold.
C10_WholeCurveOrNone ==
  call.op = "positive_rates" =>
    LET thresholds == call.thresholds
        pair == result.value
    IN  IF \E k \in 1..Len(thresholds) :
             LET c == confusion_matrix_counts(df, thresholds[k])
             IN  c.tp + c.fn = 0 \/ c.fp + c.tn = 0
          THEN pair = NonePair
          ELSE /\ ~pair.none
               /\ Len(pair.fpr) = Len(thresholds)
               /\ Len(pair.tpr) = Len(thresholds)
               /\ pair.fpr = [k \in 1..Len(thresholds) |->
                               LET c == confusion_matrix_counts(df, thresholds[k])
                               IN  Num(c.fp, c.fp + c.tn)]
               /\ pair.tpr = [k \in 1..Len(thresholds) |->
                               LET c == confusion_matrix_counts(df, thresholds[k])
                               IN  Num(c.tp, c.tp + c.fn)]

\* a full curve over a sweep of several thresholds, with rates strictly
\* between 0 and 1 on it
C10_Witness ==
  /\ call.op = "positive_rates"
  /\ Len(call.thresholds) >= 5
  /\ ~result.value.none
  /\ \E k \in 1..Len(call.thresholds) :
       /\ Less(Zero, result.value.tpr[k]) /\ Less(result.value.tpr[k], One)
  /\ \E k \in 1..Len(call.thresholds) : result.value.fpr[k] = One

\* (None, None) for a frame that has rows but no actual positives
C10_WitnessNone ==
  /\ call.op = "positive_rates"
  /\ Len(df) > 0 /\ ActualPositives = {}
  /\ result.value = NonePair

(***************************************************************************)
(* model_family_name.  A name is a sequence of characters;                 *)
(* os.path.commonprefix is the longest common prefix, character by         *)
(* character, and the empty string for an empty list.                      *)
(***************************************************************************)
IsPrefix(p, name) == Len(p) <= Len(name) /\ SubSeq(name, 1, Len(p)) = p

commonprefix(m) ==
  IF m = <<>>
    THEN <<>>
    ELSE LET Common(k) == \A i \in 1..Len(m) : IsPrefix(SubSeq(m[1], 1, k), m[i])
             n == CHOOSE k \in 0..Len(m[1]) :
                    Common(k) /\ \A j \in k + 1..Len(m[1]) : ~Common(j)
         IN  SubSeq(m[1], 1, n)

RECURSIVE lstrip(_)
lstrip(name) ==
  IF name # <<>> /\ Head(name) = "_" THEN lstrip(Tail(name)) ELSE name

RECURSIVE rstrip(_)
rstrip(name) ==
  IF name # <<>> /\ name[Len(name)] = "_"
    THEN rstrip(SubSeq(name, 1, Len(name) - 1))
    ELSE name

\* str.strip('_')
strip(name) == rstrip(lstrip(name))

model_family_name(model_names) ==
  LET prefix == commonprefix(model_names)
  IN  IF prefix = <<>>
        THEN Raised("ValueError")
        ELSE Returned(strip(prefix))

(***************************************************************************)
(* Family names as steps.                                                  *)
(***************************************************************************)
Chars == {"_", "a", "b"}

ModelNames == SeqsUpTo(Chars, MaxNameLen)

InitFamily ==
  /\ df = <<>>
  /\ call = [op |-> "init"]
  /\ result = Returned(None)

ModelFamilyName ==
  /\ call.op = "init"
  /\ \E model_names \in SeqsUpTo(ModelNames, MaxFamilySize) :
       /\ call' = [op |-> "model_family_name", model_names |-> model_names]
       /\ result' = model_family_name(model_names)
       /\ UNCHANGED df

NextFamily == ModelFamilyName

SpecFamily == InitFamily /\ [][NextFamily]_vars

\* C8: for a non-empty list of model names, model_family_name returns a
\* non-empty family name (the longest common prefix without its leading and
\* trailing '_') or fails; it never returns an empty family name.
C8_FamilyNameNeverEmpty ==
  (call.op = "model_family_name" /\ call.model_names # <<>>) =>
    \/ result.kind = "raise"
    \/ /\ result.value = strip(commonprefix(call.model_names))
       /\ result.value # <<>>

(***************************************************************************)
(* diff_per_subgroup_from_overall.  overall_metrics maps a family name to  *)
(* the list of per-instance values; per_subgroup_metrics maps a column     *)
(* name (family name + metric_column) to the column, one per-instance list *)
(* per subgroup row.  Float arithmetic on NaN gives NaN; arithmetic on     *)
(* None raises TypeError.                                                  *)
(***************************************************************************)
AbsNum(x) == IF x.n < 0 THEN Num(-x.n, x.d) ELSE x

\* float addition
AddFloat(x, y) == IF x.kind = "nan" \/ y.kind = "nan" THEN NaN ELSE Add(x, y)

calculate_error_signed(overall_score, per_group_score, squared_error) ==
  IF overall_score.kind = "None" \/ per_group_score.kind = "None"
    THEN Raised("TypeError")
    ELSE IF overall_score.kind = "nan" \/ per_group_score.kind = "nan"
      THEN Returned(NaN)
      ELSE LET diff == Sub(overall_score, per_group_score)
           IN  Returned(IF squared_error THEN Mul(diff, diff) ELSE diff)

calculate_error(overall_score, per_group_score, squared_error) ==
  IF overall_score.kind = "None" \/ per_group_score.kind = "None"
    THEN Raised("TypeError")
    ELSE IF overall_score.kind = "nan" \/ per_group_score.kind = "nan"
      THEN Returned(NaN)
      ELSE LET diff == Sub(overall_score, per_group_score)
           IN  Returned(IF squared_error THEN Mul(diff, diff) ELSE AbsNum(diff))

Min(a, b) == IF a < b THEN a ELSE b

\* sum(calculate_error(o, s) for o, s in zip(family_overall_metrics,
\* one_subgroup_metric_list)) from pair i on, added to total
RECURSIVE sum_errors(_, _, _, _, _)
sum_errors(family_overall_metrics, one_subgroup_metric_list, squared_error, i, total) ==
  IF i > Min(Len(family_overall_metrics), Len(one_subgroup_metric_list))
    THEN Returned(total)
    ELSE LET error == calculate_error(family_overall_metrics[i],
                                      one_subgroup_metric_list[i], squared_error)
         IN  IF error.kind = "raise"
               THEN error
               ELSE sum_errors(family_overall_metrics, one_subgroup_metric_list,
                               squared_error, i + 1, AddFloat(total, error.value))

\* the loop over the subgroup rows of one family's column
RECURSIVE subgroup_loop(_, _, _, _, _)
subgroup_loop(family_overall_metrics, column, squared_error, t, family_diff) ==
  IF t > Len(column)
    THEN Returned(family_diff)
    ELSE LET row_sum == sum_errors(family_overall_metrics, column[t],
                                   squared_error, 1, Zero)
         IN  IF row_sum.kind = "raise"
               THEN row_sum
               ELSE subgroup_loop(family_overall_metrics, column, squared_error,
                                  t + 1, AddFloat(family_diff, row_sum.value))

EmptyDict == [name \in {} |-> Zero]

\* the loop over the model families
RECURSIVE family_loop(_, _, _, _, _, _, _)
family_loop(overall_metrics, per_subgroup_metrics, model_families, metric_column, squared_error, j, diffs) ==
  IF j > Len(model_families)
    THEN Returned(diffs)
    ELSE LET named == model_family_name(model_families[j])
         IN  IF named.kind = "raise"
               THEN named
               ELSE LET family_name == named.value
                    IN  IF family_name \notin DOMAIN overall_metrics
                          THEN Raised("KeyError")
                          ELSE IF family_name \o metric_column
                                    \notin DOMAIN per_subgroup_metrics
                            THEN Raised("KeyError")
                            ELSE LET family_diff ==
                                       subgroup_loop(overall_metrics[family_name],
                                         per_subgroup_metrics[family_name \o metric_column],
                                         squared_error, 1, Zero)
                                 IN  IF family_diff.kind = "raise"
                                       THEN family_diff
                                       ELSE family_loop(overall_metrics,
                                              per_subgroup_metrics, model_families,
                                              metric_column, squared_error, j + 1,
                                              (family_name :> family_diff.value) @@ diffs)

diff_per_subgroup_from_overall(overall_metrics, per_subgroup_metrics, model_families, metric_column, squared_error) ==
  family_loop(overall_metrics, per_subgroup_metrics, model_families,
              metric_column, squared_error, 1, EmptyDict)

(***************************************************************************)
(* Inputs of the summary: families over a pool of model families, and for  *)
(* each a list of one value per instance, overall and per subgroup row.    *)
(***************************************************************************)
FamilyPool ==
  { << <<"a", "_", "a">>, <<"a", "_", "b">> >>,
    << <<"b">> >>,
    << <<"a", "b">> >> }

RECURSIVE Instances(_)
Instances(model_families) ==
  IF model_families = <<>>
    THEN 0
    ELSE Len(Head(model_families)) + Instances(Tail(model_families))

FamilyLists ==
  {fams \in SeqsUpTo(FamilyPool, Cardinality(FamilyPool)) :
     /\ \A i, j \in 1..Len(fams) : fams[i] = fams[j] => i = j
     /\ Instances(fams) <= MaxInstances}

MetricValues == {Num(1, 2), Num(4, 5), NaN, None}

MetricColumn == <<"_", "m">>

FamilyNameOf(family) == model_family_name(family).value

\* overall_metrics: for each family one value per model instance
RECURSIVE OverallMetrics(_)
OverallMetrics(fams) ==
  IF fams = <<>>
    THEN {EmptyDict}
    ELSE {(FamilyNameOf(Head(fams)) :> values) @@ others :
            values \in [1..Len(Head(fams)) -> MetricValues],
            others \in OverallMetrics(Tail(fams))}

\* per_subgroup_metrics of `rows` subgroup rows: for each family the column
\* of its per-instance lists
RECURSIVE SubgroupTables(_, _)
SubgroupTables(fams, rows) ==
  IF fams = <<>>
    THEN {EmptyDict}
    ELSE {(FamilyNameOf(Head(fams)) \o MetricColumn :> column) @@ others :
            column \in [1..rows -> [1..Len(Head(fams)) -> MetricValues]],
            others \in SubgroupTables(Tail(fams), rows)}

InitDiff ==
  /\ df = <<>>
  /\ call = [op |-> "init"]
  /\ result = Returned(None)

DiffPerSubgroupFromOverall ==
  /\ call.op = "init"
  /\ \E model_families \in FamilyLists, squared_error \in BOOLEAN :
     \E rows \in 0..MaxCells :
       /\ rows * Instances(model_families) <= MaxCells
       /\ \E overall_metrics \in OverallMetrics(model_families),
             per_subgroup_metrics \in SubgroupTables(model_families, rows) :
            /\ call' = [op |-> "diff_per_subgroup_from_overall",
                        overall_metrics |-> overall_metrics,
                        per_subgroup_metrics |-> per_subgroup_metrics,
                        model_families |-> model_families,
                        metric_column |-> MetricColumn,
                        squared_error |-> squared_error]
            /\ result' = diff_per_subgroup_from_overall(overall_metrics,
                           per_subgroup_metrics, model_families, MetricColumn,
                           squared_error)
            /\ UNCHANGED df

NextDiff == DiffPerSubgroupFromOverall

SpecDiff == InitDiff /\ [][NextDiff]_vars

(***************************************************************************)
(* Properties of the summary.                                              *)
(***************************************************************************)
DiffFamilies == {call.model_families[j] : j \in 1..Len(call.model_families)}
OverallOf(family) == call.overall_metrics[FamilyNameOf(family)]
ColumnOf(family) == call.per_subgroup_metrics[FamilyNameOf(family) \o call.metric_column]

\* the (subgroup row, model instance) pairs of a family
PairsOf(family) == (1..Len(ColumnOf(family))) \X (1..Len(OverallOf(family)))

\* the error of one pair as the claim states it
PairError(overall_score, per_group_score, squared_error) ==
  LET diff == Sub(overall_score, per_group_score)
  IN  IF squared_error
        THEN Mul(diff, diff)
        ELSE IF Leq(overall_score, per_group_score)
               THEN Sub(per_group_score, overall_score)
               ELSE diff

RECURSIVE SumOfPairErrors(_, _)
SumOfPairErrors(family, pairs) ==
  IF pairs = {}
    THEN Zero
    ELSE LET p == CHOOSE q \in pairs : TRUE
         IN  Add(PairError(OverallOf(family)[p[2]], ColumnOf(family)[p[1]][p[2]],
                           call.squared_error),
                 SumOfPairErrors(family, pairs \ {p}))

HasKind(family, kind) ==
  \/ \E i \in 1..Len(OverallOf(family)) : OverallOf(family)[i].kind = kind
  \/ \E p \in PairsOf(family) : ColumnOf(family)[p[1]][p[2]].kind = kind

\* a NaN meets the summation of the family
PairedNaN(family) ==
  \E p \in PairsOf(family) :
    \/ OverallOf(family)[p[2]].kind = "nan"
    \/ ColumnOf(family)[p[1]][p[2]].kind = "nan"

SubgroupsEqualOverall(family) ==
  \A t \in 1..Len(ColumnOf(family)) : ColumnOf(family)[t] = OverallOf(family)

\* C6 as stated: one scalar per family, the sum over subgroup rows and
\* instances of |overall - subgroup| or (overall - subgroup)^2, hence >= 0,
\* and 0.0 when every subgroup list equals the overall list.  (Lists that
\* hold None are left to C7.)
C6_SumOfErrorsAsStated ==
  (/\ call.op = "diff_per_subgroup_from_overall"
   /\ \A family \in DiffFamilies : ~HasKind(family, "None")) =>
    /\ result.kind = "ok"
    /\ DOMAIN result.value = {FamilyNameOf(family) : family \in DiffFamilies}
    /\ \A family \in DiffFamilies :
         LET value == result.value[FamilyNameOf(family)]
         IN  /\ IsNum(value)
             /\ value = SumOfPairErrors(family, PairsOf(family))
             /\ Leq(Zero, value)
             /\ SubgroupsEqualOverall(family) => value = Zero

\* C6 (amended): the same, for the families whose paired values are all
\* numbers; a family whose summation meets a NaN gets NaN.
C6_SumOfErrors ==
  (/\ call.op = "diff_per_subgroup_from_overall"
   /\ \A family \in DiffFamilies : ~HasKind(family, "None")) =>
    /\ result.kind = "ok"
    /\ DOMAIN result.value = {FamilyNameOf(family) : family \in DiffFamilies}
    /\ \A family \in DiffFamilies :
         LET value == result.value[FamilyNameOf(family)]
         IN  IF PairedNaN(family)
               THEN value = NaN
               ELSE /\ IsNum(value)
                    /\ value = SumOfPairErrors(family, PairsOf(family))
                    /\ Leq(Zero, value)
                    /\ SubgroupsEqualOverall(family) => value = Zero

\* two subgroup rows of a two-instance family whose instances differ, summed
\* with squared error to a non-zero value
C6_Witness ==
  /\ call.op = "diff_per_subgroup_from_overall"
  /\ call.squared_error
  /\ result.kind = "ok"
  /\ \E family \in DiffFamilies :
       /\ Len(family) = 2 /\ Len(ColumnOf(family)) = 2
       /\ ~HasKind(family, "None") /\ ~HasKind(family, "nan")
       /\ OverallOf(family)[1] # OverallOf(family)[2]
       /\ ColumnOf(family)[1] = OverallOf(family)
       /\ ColumnOf(family)[2] # OverallOf(family)
       /\ result.value[FamilyNameOf(family)] = Num(9, 50)

(***************************************************************************)
(* normalized_mwu.  stats.mannwhitneyu returns the U statistic of its      *)
(* first sample, R1 - n1(n1+1)/2 with R1 the sum of the first sample's     *)
(* ranks in the pooled data (ties get the average rank).  Ranks are kept   *)
(* doubled so that they stay integers.                                     *)
(***************************************************************************)
\* data[model_name]
ScoreColumn(data) == [i \in 1..Len(data) |-> data[i].score]

RECURSIVE SumSeq(_)
SumSeq(xs) == IF xs = <<>> THEN 0 ELSE Head(xs) + SumSeq(Tail(xs))

\* twice the average rank of value v in the pooled scores
DoubledRank(v, pooled) ==
  2 * Cardinality({j \in 1..Len(pooled) : pooled[j] < v})
    + Cardinality({j \in 1..Len(pooled) : pooled[j] = v}) + 1

\* the sum of the first sample's scores in place of the sum of its ranks
mannwhitneyu_doubled_by_value(scores_1, scores_2) ==
  LET n1 == Len(scores_1)
  IN  SumSeq([i \in 1..n1 |-> 2 * scores_1[i]])

\* twice the U statistic of scores_1
mannwhitneyu_doubled(scores_1, scores_2) ==
  LET pooled == scores_1 \o scores_2
      n1 == Len(scores_1)
  IN  SumSeq([i \in 1..n1 |-> DoubledRank(scores_1[i], pooled)]) - n1 * (n1 + 1)

\* the U statistic of the second sample instead of the first
normalized_mwu_swapped(data1, data2) ==
  LET scores_1 == ScoreColumn(data1)
      scores_2 == ScoreColumn(data2)
      n1 == Len(scores_1)
      n2 == Len(scores_2)
  IN  IF n1 = 0 \/ n2 = 0
        THEN None
        ELSE Num(mannwhitneyu_doubled(scores_2, scores_1), 2 * n1 * n2)

normalized_mwu(data1, data2) ==
  LET scores_1 == ScoreColumn(data1)
      scores_2 == ScoreColumn(data2)
      n1 == Len(scores_1)
      n2 == Len(scores_2)
  IN  IF n1 = 0 \/ n2 = 0
        THEN None
        ELSE Num(mannwhitneyu_doubled(scores_1, scores_2), 2 * n1 * n2)

(***************************************************************************)
(* The five MWU variants and the normalized pinned AUC of one subgroup,    *)
(* one label column and one model column.                                  *)
(***************************************************************************)
\* df[subgroup-mask & label-mask]
Slice(frame, in_subgroup, positive) ==
  LET Mask(r) == r.subgroup = in_subgroup /\ r.label = positive
  IN  SelectSeq(frame, Mask)

compute_within_negative_label_mwu(frame) ==
  LET mwu == normalized_mwu(Slice(frame, FALSE, FALSE), Slice(frame, TRUE, FALSE))
  IN  IF mwu = None THEN None ELSE Sub(Half, mwu)

compute_within_positive_label_mwu(frame) ==
  LET mwu == normalized_mwu(Slice(frame, FALSE, TRUE), Slice(frame, TRUE, TRUE))
  IN  IF mwu = None THEN None ELSE Sub(Half, mwu)

compute_within_subgroup_mwu(frame) ==
  LET mwu == normalized_mwu(Slice(frame, TRUE, FALSE), Slice(frame, TRUE, TRUE))
  IN  IF mwu = None THEN None ELSE Sub(One, mwu)

compute_cross_subgroup_negative_mwu(frame) ==
  LET mwu == normalized_mwu(Slice(frame, TRUE, FALSE), Slice(frame, FALSE, TRUE))
  IN  IF mwu = None THEN None ELSE Sub(One, mwu)

compute_cross_subgroup_positive_mwu(frame) ==
  LET mwu == normalized_mwu(Slice(frame, FALSE, FALSE), Slice(frame, TRUE, TRUE))
  IN  IF mwu = None THEN None ELSE Sub(One, mwu)

RECURSIVE SumFloats(_)
SumFloats(values) ==
  IF values = <<>> THEN Zero ELSE AddFloat(Head(values), SumFloats(Tail(values)))

\* np.mean of a non-empty list of floats
Mean(values) ==
  LET total == SumFloats(values)
  IN  IF total.kind = "nan" THEN NaN ELSE Mul(total, Num(1, Len(values)))

compute_normalized_pinned_auc(frame) ==
  LET within_subgroup == compute_within_subgroup_mwu(frame)
      cross_1 == compute_cross_subgroup_negative_mwu(frame)
      cross_2 == compute_cross_subgroup_positive_mwu(frame)
  IN  IF within_subgroup = None \/ cross_1 = None \/ cross_2 = None
        THEN None
        ELSE Mean(<<within_subgroup, cross_1, cross_2>>)

(***************************************************************************)
(* Frames with a subgroup column.  No function of the file depends on the  *)
(* order of the rows (they read a frame through masks, len and ranks), so  *)
(* these frames are enumerated up to row order: rows ascend by RowKey.     *)
(***************************************************************************)
SubgroupScores == 0..ScoreScale

SubgroupRows == {Row(s, l, g) : s \in SubgroupScores, l \in BOOLEAN, g \in BOOLEAN}

RowKey(row) ==
  4 * row.score + (IF row.label THEN 2 ELSE 0) + (IF row.subgroup THEN 1 ELSE 0)

RECURSIVE OrderedFrames(_)
OrderedFrames(n) ==
  IF n = 0
    THEN {<<>>}
    ELSE LET shorter == OrderedFrames(n - 1)
         IN  shorter \cup
             {Append(p[1], p[2]) :
                p \in {q \in shorter \X SubgroupRows :
                         /\ Len(q[1]) = n - 1
                         /\ q[1] # <<>> => RowKey(q[1][Len(q[1])]) <= RowKey(q[2])}}

SubgroupFrames == OrderedFrames(MaxSubgroupRows)

\* strictly monotonic maps of the score column, increasing and decreasing
Transforms ==
  {f \in [SubgroupScores -> 0..ScoreScale + 1] :
     \/ \A x, y \in SubgroupScores : x < y => f[x] < f[y]
     \/ \A x, y \in SubgroupScores : x < y => f[x] > f[y]}

Increasing(f) == \A x, y \in DOMAIN f : x < y => f[x] < f[y]

\* the frame with every score of the model column replaced by f(score)
Transformed(frame, f) ==
  [i \in 1..Len(frame) |-> [frame[i] EXCEPT !.score = f[@]]]

(***************************************************************************)
(* The MWU functions as steps.  The variants are applied to the frame      *)
(* whose score column went through a transform.                            *)
(***************************************************************************)
InitMwu ==
  /\ df \in SubgroupFrames
  /\ call = [op |-> "init"]
  /\ result = Returned(None)

NormalizedMwu ==
  /\ call.op = "init"
  /\ \E s1, l1, s2, l2 \in BOOLEAN :
       LET data1 == Slice(df, s1, l1)
           data2 == Slice(df, s2, l2)
       IN  /\ call' = [op |-> "normalized_mwu", data1 |-> data1, data2 |-> data2]
           /\ result' = Returned(normalized_mwu(data1, data2))
           /\ UNCHANGED df

ComputeWithinNegativeLabelMwu ==
  /\ call.op = "init"
  /\ \E f \in Transforms :
       /\ call' = [op |-> "compute_within_negative_label_mwu", transform |-> f]
       /\ result' = Returned(compute_within_negative_label_mwu(Transformed(df, f)))
       /\ UNCHANGED df

ComputeWithinPositiveLabelMwu ==
  /\ call.op = "init"
  /\ \E f \in Transforms :
       /\ call' = [op |-> "compute_within_positive_label_mwu", transform |-> f]
       /\ result' = Returned(compute_within_positive_label_mwu(Transformed(df, f)))
       /\ UNCHANGED df

ComputeWithinSubgroupMwu ==
  /\ call.op = "init"
  /\ \E f \in Transforms :
       /\ call' = [op |-> "compute_within_subgroup_mwu", transform |-> f]
       /\ result' = Returned(compute_within_subgroup_mwu(Transformed(df, f)))
       /\ UNCHANGED df

ComputeCrossSubgroupNegativeMwu ==
  /\ call.op = "init"
  /\ \E f \in Transforms :
       /\ call' = [op |-> "compute_cross_subgroup_negative_mwu", transform |-> f]
       /\ result' = Returned(compute_cross_subgroup_negative_mwu(Transformed(df, f)))
       /\ UNCHANGED df

ComputeCrossSubgroupPositiveMwu ==
  /\ call.op = "init"
  /\ \E f \in Transforms :
       /\ call' = [op |-> "compute_cross_subgroup_positive_mwu", transform |-> f]
       /\ result' = Returned(compute_cross_subgroup_positive_mwu(Transformed(df, f)))
       /\ UNCHANGED df

ComputeNormalizedPinnedAuc ==
  /\ call.op = "init"
  /\ \E f \in Transforms :
       /\ call' = [op |-> "compute_normalized_pinned_auc", transform |-> f]
       /\ result' = Returned(compute_normalized_pinned_auc(Transformed(df, f)))
       /\ UNCHANGED df

NextMwu ==
  \/ NormalizedMwu
  \/ ComputeWithinNegativeLabelMwu
  \/ ComputeWithinPositiveLabelMwu
  \/ ComputeWithinSubgroupMwu
  \/ ComputeCrossSubgroupNegativeMwu
  \/ ComputeCrossSubgroupPositiveMwu
  \/ ComputeNormalizedPinnedAuc

SpecMwu == InitMwu /\ [][NextMwu]_vars

(***************************************************************************)
(* Properties of the MWU functions.                                        *)
(***************************************************************************)
\* C3: normalized_mwu is None when either sample is empty; otherwise it is
\* U/(|A||B|) in [0, 1], U the number of pairs a > b plus half the number of
\* pairs a = b; and it is 0.5 when A and B hold the same scores with the
\* same multiplicities.
C3_NormalizedMwu ==
  call.op = "normalized_mwu" =>
    LET A == ScoreColumn(call.data1)
        B == ScoreColumn(call.data2)
        Pairs == (1..Len(A)) \X (1..Len(B))
        greater == Cardinality({p \in Pairs : A[p[1]] > B[p[2]]})
        equal == Cardinality({p \in Pairs : A[p[1]] = B[p[2]]})
        Count(xs, v) == Cardinality({i \in 1..Len(xs) : xs[i] = v})
    IN  IF Len(A) = 0 \/ Len(B) = 0
          THEN result.value = None
          ELSE /\ IsNum(result.value)
               /\ result.value = Num(2 * greater + equal, 2 * Len(A) * Len(B))
               /\ Leq(Zero, result.value) /\ Leq(result.value, One)
               /\ (\A v \in SubgroupScores : Count(A, v) = Count(B, v))
                    => result.value = Half

\* two different samples of the same two distinct scores
C3_Witness ==
  /\ call.op = "normalized_mwu"
  /\ call.data1 # call.data2
  /\ Len(call.data1) = 2 /\ Len(call.data2) = 2
  /\ call.data1[1].score # call.data1[2].score
  /\ \A v \in SubgroupScores :
       Cardinality({i \in 1..2 : call.data1[i].score = v})
         = Cardinality({i \in 1..2 : call.data2[i].score = v})
  /\ result.value = Half

VariantOps ==
  {"compute_within_subgroup_mwu", "compute_cross_subgroup_negative_mwu",
   "compute_cross_subgroup_positive_mwu", "compute_normalized_pinned_auc"}

\* the value of the called variant on the frame as it is
Untransformed ==
  CASE call.op = "compute_within_subgroup_mwu" -> compute_within_subgroup_mwu(df)
    [] call.op = "compute_cross_subgroup_negative_mwu" ->
         compute_cross_subgroup_negative_mwu(df)
    [] call.op = "compute_cross_subgroup_positive_mwu" ->
         compute_cross_subgroup_positive_mwu(df)
    [] call.op = "compute_normalized_pinned_auc" -> compute_normalized_pinned_auc(df)

\* C4 as stated: the within-subgroup and the two cross-subgroup variants and
\* the normalized pinned AUC do not change, None included, when the score
\* column goes through any strictly monotonic transform.
C4_InvariantUnderMonotonic ==
  call.op \in VariantOps => result.value = Untransformed

\* C4 (amended): they do not change under a strictly increasing transform;
\* under a strictly decreasing one None stays None and a value v becomes
\* 1 - v.
C4_InvariantUnderIncreasing ==
  call.op \in VariantOps =>
    IF Increasing(call.transform)
      THEN result.value = Untransformed
      ELSE IF Untransformed = None
             THEN result.value = None
             ELSE result.value = Sub(One, Untransformed)

\* a pinned AUC that is defined and not 1/2, under an increasing transform
\* that is not affine
C4_Witness ==
  /\ call.op = "compute_normalized_pinned_auc"
  /\ Increasing(call.transform)
  /\ 2 * call.transform[1] # call.transform[0] + call.transform[2]
  /\ IsNum(result.value)
  /\ Less(Half, result.value) /\ Less(result.value, One)

(***************************************************************************)
(* average_squared_equality_gap and squared_diff_integral.  np.trapz(v, x) *)
(* is the sum of (x[k+1] - x[k]) * (v[k] + v[k+1]) / 2.                    *)
(***************************************************************************)
RECURSIVE trapz(_, _, _)
trapz(v, x, k) ==
  IF k >= Len(x)
    THEN Zero
    ELSE Add(Mul(Sub(x[k + 1], x[k]), Mul(Add(v[k], v[k + 1]), Half)),
             trapz(v, x, k + 1))

\* the difference integrated without squaring it
squared_diff_integral_unsquared(y, x) ==
  trapz([k \in 1..Len(y) |-> Sub(y[k], x[k])], x, 1)

squared_diff_integral(y, x) ==
  trapz([k \in 1..Len(y) |-> Mul(Sub(y[k], x[k]), Sub(y[k], x[k]))], x, 1)

\* the pair (positive gap, negative gap)
GapPair(positive, negative) == [positive |-> positive, negative |-> negative]

\* truth value of a list returned by positive_rates (None and [] are false)
Truthy(pair, rates) == ~pair.none /\ Len(rates) > 0

\* the positive gap integrated along the background FPR instead
average_squared_equality_gap_over_fpr(frame) ==
  LET InSubgroup(r) == r.subgroup
      InBackground(r) == ~r.subgroup
      subgroup_df == SelectSeq(frame, InSubgroup)
      background_df == SelectSeq(frame, InBackground)
  IN  IF Len(subgroup_df) = 0 \/ Len(background_df) = 0
        THEN GapPair(None, None)
        ELSE LET thresholds == Linspace(1, 0, RocThresholds)
                 s == positive_rates(subgroup_df, thresholds)
                 b == positive_rates(background_df, thresholds)
             IN  IF /\ Truthy(s, s.fpr) /\ Truthy(s, s.tpr)
                    /\ Truthy(b, b.fpr) /\ Truthy(b, b.tpr)
                   THEN GapPair(
                          trapz([k \in 1..Len(s.tpr) |->
                                   Mul(Sub(s.tpr[k], b.tpr[k]), Sub(s.tpr[k], b.tpr[k]))],
                                b.fpr, 1),
                          squared_diff_integral(s.fpr, b.fpr))
                   ELSE GapPair(None, None)

average_squared_equality_gap(frame) ==
  LET InSubgroup(r) == r.subgroup
      InBackground(r) == ~r.subgroup
      subgroup_df == SelectSeq(frame, InSubgroup)
      background_df == SelectSeq(frame, InBackground)
  IN  IF Len(subgroup_df) = 0 \/ Len(background_df) = 0
        THEN GapPair(None, None)
        ELSE LET thresholds == Linspace(1, 0, RocThresholds)
                 s == positive_rates(subgroup_df, thresholds)
                 b == positive_rates(background_df, thresholds)
             IN  IF /\ Truthy(s, s.fpr) /\ Truthy(s, s.tpr)
                    /\ Truthy(b, b.fpr) /\ Truthy(b, b.tpr)
                   THEN GapPair(squared_diff_integral(s.tpr, b.tpr),
                                squared_diff_integral(s.fpr, b.fpr))
                   ELSE GapPair(None, None)

InitGap ==
  /\ df \in SubgroupFrames
  /\ call = [op |-> "init"]
  /\ result = Returned(None)

AverageSquaredEqualityGap ==
  /\ call.op = "init"
  /\ call' = [op |-> "average_squared_equality_gap"]
  /\ result' = Returned(average_squared_equality_gap(df))
  /\ UNCHANGED df

NextGap == AverageSquaredEqualityGap

SpecGap == InitGap /\ [][NextGap]_vars

\* the ROC curves of the subgroup and of the background over the sweep
SubgroupCurve ==
  LET InSubgroup(r) == r.subgroup
  IN  positive_rates(SelectSeq(df, InSubgroup), Linspace(1, 0, RocThresholds))

BackgroundCurve ==
  LET InBackground(r) == ~r.subgroup
  IN  positive_rates(SelectSeq(df, InBackground), Linspace(1, 0, RocThresholds))

\* C5: when average_squared_equality_gap returns defined values the
\* positive and the negative gap are both >= 0, and both are exactly 0 when
\* the subgroup's TPR and FPR sequences equal the background's at every
\* threshold of the sweep.
C5_GapsNonNegative ==
  (/\ call.op = "average_squared_equality_gap"
   /\ result.value.positive # None
   /\ result.value.negative # None) =>
    /\ ~SubgroupCurve.none /\ ~BackgroundCurve.none
    /\ IsNum(result.value.positive) /\ Leq(Zero, result.value.positive)
    /\ IsNum(result.value.negative) /\ Leq(Zero, result.value.negative)
    /\ SubgroupCurve = BackgroundCurve =>
         result.value.positive = Zero /\ result.value.negative = Zero

\* both gaps are defined and strictly positive
C5_Witness ==
  /\ call.op = "average_squared_equality_gap"
  /\ IsNum(result.value.positive) /\ Less(Zero, result.value.positive)
  /\ IsNum(result.value.negative) /\ Less(Zero, result.value.negative)

\* both gaps are zero on identical curves
C5_WitnessIdentical ==
  /\ call.op = "average_squared_equality_gap"
  /\ ~SubgroupCurve.none /\ SubgroupCurve = BackgroundCurve
  /\ result.value.positive = Zero /\ result.value.negative = Zero

(***************************************************************************)
(* The pinned-AUC pipeline on a frame with one subgroup column and one     *)
(* model column: compute_auc, model_family_auc, balanced_subgroup_subset,  *)
(* per_subgroup_aucs and per_subgroup_auc_diff_from_overall.               *)
(***************************************************************************)
\* metrics.roc_auc_score raises ValueError unless both classes are present;
\* otherwise it is the share of (positive, negative) pairs ranked in order,
\* ties counting one half
compute_auc(frame) ==
  LET Positive(r) == r.label
      Negative(r) == ~r.label
      pos == ScoreColumn(SelectSeq(frame, Positive))
      neg == ScoreColumn(SelectSeq(frame, Negative))
      Pairs == (1..Len(pos)) \X (1..Len(neg))
  IN  IF Len(pos) = 0 \/ Len(neg) = 0
        THEN NaN
        ELSE Num(2 * Cardinality({q \in Pairs : pos[q[1]] > neg[q[2]]})
                   + Cardinality({q \in Pairs : pos[q[1]] = neg[q[2]]}),
                 2 * Len(pos) * Len(neg))

\* the model column and the family made of it
ModelName == <<"m">>
ModelFamily == <<ModelName>>

\* model_family_auc of a family whose instances all read the model column
\* (median and std are further summaries of aucs that nothing reads here)
model_family_auc(frame, model_names) ==
  LET aucs == [i \in 1..Len(model_names) |-> compute_auc(frame)]
  IN  [aucs |-> aucs, mean |-> Mean(aucs)]

\* the rows of the frame at the given indices, in order
RowsAt(frame, indices) ==
  LET Keep(i) == i \in indices
      kept == SelectSeq([i \in 1..Len(frame) |-> i], Keep)
  IN  [k \in 1..Len(kept) |-> frame[kept[k]]]

SubgroupIndices(frame) == {i \in 1..Len(frame) : frame[i].subgroup}
BackgroundIndices(frame) == {i \in 1..Len(frame) : ~frame[i].subgroup}

\* balanced_subgroup_subset: DataFrame.sample raises ValueError when asked
\* for more rows than there are; `sample` is the set of background rows the
\* seeded generator picked
balanced_subgroup_subset(frame, sample) ==
  IF Cardinality(SubgroupIndices(frame)) > Cardinality(BackgroundIndices(frame))
    THEN Raised("ValueError")
    ELSE Returned(RowsAt(frame, SubgroupIndices(frame)) \o RowsAt(frame, sample))

\* the samples DataFrame.sample can return
Samples(frame) ==
  IF Cardinality(SubgroupIndices(frame)) > Cardinality(BackgroundIndices(frame))
    THEN {{}}
    ELSE {picked \in SUBSET BackgroundIndices(frame) :
            Cardinality(picked) = Cardinality(SubgroupIndices(frame))}

\* the record of the subgroup: column name |-> value, for one model family
subgroup_record(frame, subgroup_subset, model_family, family_name, include_asegs) ==
  LET PerInstance(value) == [i \in 1..Len(model_family) |-> value]
      aucs == PerInstance(compute_auc(subgroup_subset))
      gaps == average_squared_equality_gap(frame)
      base ==
        (<<"subset_size">> :> Len(subgroup_subset)) @@
        (family_name \o <<"_mean">> :> Mean(aucs)) @@
        (family_name \o <<"_aucs">> :> aucs) @@
        (family_name \o <<"_within_negative_label_mwus">> :>
           PerInstance(compute_within_negative_label_mwu(frame))) @@
        (family_name \o <<"_within_positive_label_mwus">> :>
           PerInstance(compute_within_positive_label_mwu(frame))) @@
        (family_name \o <<"_within_subgroup_mwus">> :>
           PerInstance(compute_within_subgroup_mwu(frame))) @@
        (family_name \o <<"_cross_subgroup_negative_mwus">> :>
           PerInstance(compute_cross_subgroup_negative_mwu(frame))) @@
        (family_name \o <<"_cross_subgroup_positive_mwus">> :>
           PerInstance(compute_cross_subgroup_positive_mwu(frame))) @@
        (family_name \o <<"_normalized_pinned_aucs">> :>
           PerInstance(compute_normalized_pinned_auc(frame)))
  IN  IF include_asegs
        THEN (family_name \o <<"_positive_asegs">> :> PerInstance(gaps.positive)) @@
             (family_name \o <<"_negative_asegs">> :> PerInstance(gaps.negative)) @@
             base
        ELSE base

\* per_subgroup_aucs for the subgroup column and one model family: the table
\* as column name |-> column (one cell per subgroup row)
per_subgroup_aucs(frame, sample, model_family, include_asegs) ==
  LET subset == balanced_subgroup_subset(frame, sample)
      named == model_family_name(model_family)
  IN  IF subset.kind = "raise"
        THEN subset
        ELSE IF named.kind = "raise"
          THEN named
          ELSE LET record == subgroup_record(frame, subset.value, model_family,
                                             named.value, include_asegs)
               IN  Returned([column \in DOMAIN record |-> <<record[column]>>])

\* the table and the overall AUCs are computed once (the two singleton sets),
\* then handed to diff_per_subgroup_from_overall
per_subgroup_auc_diff_from_overall(frame, sample, model_family, squared_error, normed_auc) ==
  LET named == model_family_name(model_family)
      auc_column == IF normed_auc THEN <<"_normalized_pinned_aucs">> ELSE <<"_aucs">>
      Summarize(per_subgroup_auc_results, overall_aucs) ==
        IF per_subgroup_auc_results.kind = "raise"
          THEN per_subgroup_auc_results
          ELSE IF named.kind = "raise"
            THEN named
            ELSE diff_per_subgroup_from_overall(
                   (named.value :> overall_aucs), per_subgroup_auc_results.value,
                   <<model_family>>, auc_column, squared_error)
  IN  CHOOSE d \in {Summarize(table, aucs) :
                      table \in {per_subgroup_aucs(frame, sample, model_family, FALSE)},
                      aucs \in {model_family_auc(frame, model_family).aucs}} : TRUE

InitPipeline ==
  /\ df \in SubgroupFrames
  /\ call = [op |-> "init"]
  /\ result = Returned(None)

ModelFamilyAuc ==
  /\ call.op = "init"
  /\ call' = [op |-> "model_family_auc", model_names |-> ModelFamily]
  /\ result' = Returned(model_family_auc(df, ModelFamily))
  /\ UNCHANGED df

PerSubgroupAucs ==
  /\ call.op = "init"
  /\ \E sample \in Samples(df), include_asegs \in BOOLEAN :
       /\ call' = [op |-> "per_subgroup_aucs", sample |-> sample,
                   include_asegs |-> include_asegs]
       /\ result' = per_subgroup_aucs(df, sample, ModelFamily, include_asegs)
       /\ UNCHANGED df

PerSubgroupAucDiffFromOverall ==
  /\ call.op = "init"
  /\ \E sample \in Samples(df), squared_error \in BOOLEAN, normed_auc \in BOOLEAN :
       /\ call' = [op |-> "per_subgroup_auc_diff_from_overall", sample |-> sample,
                   squared_error |-> squared_error, normed_auc |-> normed_auc]
       /\ result' = per_subgroup_auc_diff_from_overall(df, sample, ModelFamily,
                                                       squared_error, normed_auc)
       /\ UNCHANGED df

NextPipeline ==
  \/ ModelFamilyAuc
  \/ PerSubgroupAucs
  \/ PerSubgroupAucDiffFromOverall

SpecPipeline == InitPipeline /\ [][NextPipeline]_vars

\* a slice that a variant of the normalized pinned AUC needs is empty
EmptyPartition ==
  \/ Slice(df, TRUE, FALSE) = <<>>
  \/ Slice(df, TRUE, TRUE) = <<>>
  \/ Slice(df, FALSE, FALSE) = <<>>
  \/ Slice(df, FALSE, TRUE) = <<>>

\* C7: when a partition a metric needs is empty, the pipeline from the MWU
\* variants through compute_normalized_pinned_auc and the per_subgroup_aucs
\* record to per_subgroup_auc_diff_from_overall (normed_auc=True) never
\* fails: the pinned AUC of the instance is undefined and that undefined
\* value reaches the per-family result.  (Stated for the frames on which
\* the balanced subset can be drawn.)
C7_UndefinedReachesSummary ==
  (/\ call.op = "per_subgroup_auc_diff_from_overall"
   /\ call.normed_auc
   /\ EmptyPartition
   /\ Cardinality(SubgroupIndices(df)) <= Cardinality(BackgroundIndices(df))) =>
    /\ compute_normalized_pinned_auc(df) = None
    /\ result.kind = "ok"
    /\ ~IsNum(result.value[strip(ModelName)])

(***************************************************************************)
(* per_subgroup_negative_rates for one entry of `subgroups` (None, i.e.    *)
(* the whole frame, or the subgroup column) and the family of the model    *)
(* column.  The threshold is a float or a dict from model name to float.   *)
(***************************************************************************)
FloatThreshold(value) == [is_dict |-> FALSE, value |-> value]
DictThreshold(value) == [is_dict |-> TRUE, value |-> (ModelName :> value)]

\* threshold[model_name] if isinstance(threshold, dict) else threshold
model_threshold(threshold, model_name) ==
  IF threshold.is_dict THEN threshold.value[model_name] ELSE threshold.value

\* df when the subgroup is None, df[df[subgroup]] otherwise
negative_rates_subset(frame, subgroup_is_none) ==
  IF subgroup_is_none THEN frame ELSE RowsAt(frame, SubgroupIndices(frame))

\* the loop over the instances of the family: the list of their rates, or
\* the exception compute_confusion_rates raised
RECURSIVE family_rates_loop(_, _, _, _, _)
family_rates_loop(subgroup_subset, model_family, threshold, i, family_rates) ==
  IF i > Len(model_family)
    THEN Returned(family_rates)
    ELSE LET model_rates ==
               compute_confusion_rates(subgroup_subset,
                                       model_threshold(threshold, model_family[i]))
         IN  IF model_rates.kind = "raise"
               THEN model_rates
               ELSE family_rates_loop(subgroup_subset, model_family, threshold, i + 1,
                                      Append(family_rates, model_rates.value))

\* the record of one subgroup (median and std are further summaries of the
\* same lists)
per_subgroup_negative_rates(frame, subgroup_is_none, model_family, threshold) ==
  LET subgroup_subset == negative_rates_subset(frame, subgroup_is_none)
      named == model_family_name(model_family)
      Summarize(family_name, rates) ==
        IF rates.kind = "raise"
          THEN rates
          ELSE LET family_rates == rates.value
                   tnrs == [i \in 1..Len(family_rates) |-> family_rates[i].tnr]
                   fnrs == [i \in 1..Len(family_rates) |-> family_rates[i].fnr]
               IN  Returned(
                     (<<"subset_size">> :> Len(subgroup_subset)) @@
                     (family_name \o <<"_tnr_mean">> :> Mean(tnrs)) @@
                     (family_name \o <<"_tnr_values">> :> tnrs) @@
                     (family_name \o <<"_fnr_mean">> :> Mean(fnrs)) @@
                     (family_name \o <<"_fnr_values">> :> fnrs))
  IN  IF named.kind = "raise"
        THEN named
        ELSE CHOOSE record \in
               {Summarize(named.value, rates) :
                  rates \in {family_rates_loop(subgroup_subset, model_family,
                                               threshold, 1, <<>>)}} : TRUE

InitNegativeRates ==
  /\ df \in SubgroupFrames
  /\ call = [op |-> "init"]
  /\ result = Returned(None)

PerSubgroupNegativeRates ==
  /\ call.op = "init"
  /\ \E subgroup_is_none \in BOOLEAN, value \in Thresholds :
       \E threshold \in {FloatThreshold(value), DictThreshold(value)} :
         /\ call' = [op |-> "per_subgroup_negative_rates",
                     subgroup_is_none |-> subgroup_is_none, threshold |-> threshold]
         /\ result' = per_subgroup_negative_rates(df, subgroup_is_none, ModelFamily,
                                                  threshold)
         /\ UNCHANGED df

NextNegativeRates == PerSubgroupNegativeRates

SpecNegativeRates == InitNegativeRates /\ [][NextNegativeRates]_vars

\* the rows the call computed its rates on, and their confusion counts
NegativeRatesSubset == negative_rates_subset(df, call.subgroup_is_none)

NegativeRatesCounts ==
  confusion_matrix_counts(NegativeRatesSubset, model_threshold(call.threshold, ModelName))

\* C11: per_subgroup_negative_rates yields a defined TNR = tn/(tn+fp) and a
\* defined FNR = fn/(tp+fn) for every model instance of the family, for
\* every subgroup with at least one actual-positive and at least one
\* actual-negative row, at every float threshold, those above all scores of
\* the subgroup (tp + fp = 0) included.
C11_NegativeRatesDefined ==
  (/\ call.op = "per_subgroup_negative_rates"
   /\ \E i \in 1..Len(NegativeRatesSubset) : NegativeRatesSubset[i].label
   /\ \E i \in 1..Len(NegativeRatesSubset) : ~NegativeRatesSubset[i].label) =>
    /\ result.kind = "ok"
    /\ result.value[strip(ModelName) \o <<"_tnr_values">>] =
         <<Num(NegativeRatesCounts.tn, NegativeRatesCounts.tn + NegativeRatesCounts.fp)>>
    /\ result.value[strip(ModelName) \o <<"_fnr_values">>] =
         <<Num(NegativeRatesCounts.fn, NegativeRatesCounts.tp + NegativeRatesCounts.fn)>>

(***************************************************************************)
(* The equality gaps as trapezoid sums over an axis.                       *)
(***************************************************************************)
\* (a_k - b_k)^2 at every threshold of the sweep
SquaredDifferences(a, b) ==
  [k \in 1..Len(a) |-> Mul(Sub(a[k], b[k]), Sub(a[k], b[k]))]

\* area of the trapezoid between the points k - 1 and k of the axis
Trapezoid(values, axis, k) ==
  Mul(Sub(axis[k], axis[k - 1]), Mul(Half, Add(values[k - 1], values[k])))

\* trapezoidal-rule integral of the values along the axis, in threshold order
RECURSIVE IntegralUpTo(_, _, _)
IntegralUpTo(values, axis, k) ==
  IF k <= 1
    THEN Zero
    ELSE Add(IntegralUpTo(values, axis, k - 1), Trapezoid(values, axis, k))

IntegralAlong(values, axis) == IntegralUpTo(values, axis, Len(axis))

BothCurvesValid ==
  /\ \E i \in 1..Len(df) : df[i].subgroup
  /\ \E i \in 1..Len(df) : ~df[i].subgroup
  /\ ~SubgroupCurve.none
  /\ ~BackgroundCurve.none

\* the positive gap integrated along an FPR sequence
PositiveGapAlongFpr ==
  {IntegralAlong(SquaredDifferences(SubgroupCurve.tpr, BackgroundCurve.tpr), fpr) :
     fpr \in {SubgroupCurve.fpr, BackgroundCurve.fpr}}

NegativeGapAlongFpr ==
  {IntegralAlong(SquaredDifferences(SubgroupCurve.fpr, BackgroundCurve.fpr), fpr) :
     fpr \in {SubgroupCurve.fpr, BackgroundCurve.fpr}}

\* C12 as stated: when both ROC curves are valid the positive gap is the
\* trapezoidal-rule integral, in threshold order, of (subgroup TPR_k -
\* background TPR_k)^2 with respect to the FPR sequence (of the subgroup or
\* of the background), and the negative gap is that of (subgroup FPR_k -
\* background FPR_k)^2 with respect to the FPR sequence.
C12_GapsAlongFprAsStated ==
  (call.op = "average_squared_equality_gap" /\ BothCurvesValid) =>
    /\ result.value.positive \in PositiveGapAlongFpr
    /\ result.value.negative \in NegativeGapAlongFpr

\* C12 (amended): when both ROC curves are valid the positive gap is the
\* trapezoidal-rule integral, in threshold order, of (subgroup TPR_k -
\* background TPR_k)^2 with respect to the background TPR sequence, and the
\* negative gap is that of (subgroup FPR_k - background FPR_k)^2 with respect
\* to the background FPR sequence.
C12_GapsAlongBackgroundRates ==
  (call.op = "average_squared_equality_gap" /\ BothCurvesValid) =>
    /\ result.value.positive =
         IntegralAlong(SquaredDifferences(SubgroupCurve.tpr, BackgroundCurve.tpr),
                       BackgroundCurve.tpr)
    /\ result.value.negative =
         IntegralAlong(SquaredDifferences(SubgroupCurve.fpr, BackgroundCurve.fpr),
                       BackgroundCurve.fpr)

\* both gaps are positive, the positive gap is no integral along an FPR
\* sequence and the negative gap is not the one along the subgroup's FPR
C12_Witness ==
  /\ call.op = "average_squared_equality_gap"
  /\ BothCurvesValid
  /\ Less(Zero, result.value.positive)
  /\ Less(Zero, result.value.negative)
  /\ result.value.positive \notin PositiveGapAlongFpr
  /\ result.value.negative #
       IntegralAlong(SquaredDifferences(SubgroupCurve.fpr, BackgroundCurve.fpr),
                     SubgroupCurve.fpr)

====
